---- MODULE Spec2Model ----
(***************************************************************************)
(* A model of BoligPortalScraper (src/main.py): the listing store, the    *)
(* per-area crawl (_scrape_area), the cycle loop of run() with its         *)
(* try/except/finally, the numeric parsers and the admission filter.       *)
(*                                                                         *)
(* Texts are sequences of one-character strings.  A Python float is a      *)
(* record [n, k] standing for n / 10^k with no trailing zero in n when     *)
(* k > 0, so that equal floats are equal records.                          *)
(***************************************************************************)
EXTENDS Integers, Sequences, FiniteSets, TLC

(***************************************************************************)
(* Program constants and bounds                                            *)
(***************************************************************************)
\* NUM_PAGES (src/main.py:20)
NUM_PAGES == 3

\* cards on one results page
MaxCards == 1

\* crawl cycles in one run of the process
MaxCycles == 2

\* cards on all pages of the site together, when its content is fixed
MaxFeedCards == 2

\* how often the process is killed and started again
MaxRestarts == 1

\* characters of a text handed to the parsers
MaxTextLen == 5

\* the prefix of every listing URL (src/main.py:123)
BASE_URL == "https://www.boligportal.dk"

(***************************************************************************)
(* Texts and numbers                                                       *)
(***************************************************************************)
Digits == {"0", "1", "2", "3", "4", "5", "6", "7", "8", "9"}

DigitValue(c) ==
    CASE c = "0" -> 0 [] c = "1" -> 1 [] c = "2" -> 2 [] c = "3" -> 3
      [] c = "4" -> 4 [] c = "5" -> 5 [] c = "6" -> 6 [] c = "7" -> 7
      [] c = "8" -> 8 [] c = "9" -> 9

IsDigit(c) == c \in Digits

RECURSIVE Pow10(_)
Pow10(k) == IF k = 0 THEN 1 ELSE 10 * Pow10(k - 1)

\* int(ds) for a text of digits; the empty text is handled by the callers
RECURSIVE DigitsToInt(_)
DigitsToInt(ds) ==
    IF ds = <<>> THEN 0
    ELSE 10 * DigitsToInt(SubSeq(ds, 1, Len(ds) - 1)) + DigitValue(ds[Len(ds)])

\* text.replace(" ", "")
RemoveSpaces(text) == SelectSeq(text, LAMBDA c : c # " ")

\* the last index of the maximal digit run that starts at i (s[i] is a digit)
RECURSIVE DigitRunEnd(_, _)
DigitRunEnd(s, i) ==
    IF i < Len(s) /\ IsDigit(s[i + 1]) THEN DigitRunEnd(s, i + 1) ELSE i

\* the first index >= i that holds a digit, 0 when there is none
RECURSIVE FirstDigit(_, _)
FirstDigit(s, i) ==
    IF i > Len(s) THEN 0
    ELSE IF IsDigit(s[i]) THEN i ELSE FirstDigit(s, i + 1)

\* the last index of the match of \d+(?:[seps]\d+)? that starts at i: the
\* greedy digit run and, when a separator and a digit follow, the next run
TokenEnd(s, i, seps) ==
    LET e == DigitRunEnd(s, i)
    IN  IF e + 2 <= Len(s) /\ s[e + 1] \in seps /\ IsDigit(s[e + 2])
        THEN DigitRunEnd(s, e + 2)
        ELSE e

\* re.findall of \d+(?:[seps]\d+)? from index i: the non-overlapping matches,
\* left to right
RECURSIVE FindAll(_, _, _)
FindAll(s, i, seps) ==
    LET b == FirstDigit(s, i)
    IN  IF b = 0 THEN <<>>
        ELSE LET e == TokenEnd(s, b, seps)
             IN  <<SubSeq(s, b, e)>> \o FindAll(s, e + 1, seps)

\* n / 10^k without trailing zeros in the fraction
RECURSIVE Normalise(_)
Normalise(f) ==
    IF f.k > 0 /\ f.n % 10 = 0
    THEN Normalise([n |-> f.n \div 10, k |-> f.k - 1])
    ELSE f

\* float(tok.replace(",", ".")) for a token digits [sep digits]
ToFloat(tok) ==
    LET intEnd == DigitRunEnd(tok, 1)
        k      == IF intEnd = Len(tok) THEN 0 ELSE Len(tok) - intEnd - 1
    IN  Normalise([n |-> DigitsToInt(SelectSeq(tok, IsDigit)), k |-> k])

IntFloat(i) == [n |-> i, k |-> 0]

\* a >= b for floats
FloatGeq(a, b) == a.n * Pow10(b.k) >= b.n * Pow10(a.k)

\* round(f): to the nearest integer, a tie to the even one
Round(f) ==
    LET p == Pow10(f.k)
        q == f.n \div p
        r == f.n % p
    IN  IF 2 * r < p THEN q
        ELSE IF 2 * r > p THEN q + 1
        ELSE IF q % 2 = 0 THEN q ELSE q + 1

\* _parse_rooms (src/main.py:80-84)
_parse_rooms(text) ==
    LET found == FindAll(RemoveSpaces(text), 1, {","})
    IN  IF found = <<>> THEN IntFloat(0) ELSE ToFloat(found[1])

\* _parse_sqm (src/main.py:86-91)
_parse_sqm(text) ==
    LET matches == FindAll(RemoveSpaces(text), 1, {".", ","})
    IN  IF matches = <<>> THEN 0 ELSE Round(ToFloat(matches[Len(matches)]))

\* line 94 keeping only the first run of digits of the text
ParsePriceFirstRun(text) ==
    LET b == FirstDigit(text, 1)
    IN  IF b = 0 THEN 0 ELSE DigitsToInt(SubSeq(text, b, DigitRunEnd(text, b)))

\* _parse_price (src/main.py:93-95)
_parse_price(text) ==
    LET digits == SelectSeq(text, IsDigit)
    IN  IF digits # <<>> THEN DigitsToInt(digits) ELSE 0

\* lines 98-102 without the test of the size
MeetsCriteriaNoSqm(rooms, sqm, price, minRooms, minSqm, maxPrice) ==
    /\ FloatGeq(rooms, minRooms)
    /\ price <= maxPrice

\* _meets_criteria (src/main.py:97-102)
_meets_criteria(rooms, sqm, price, minRooms, minSqm, maxPrice) ==
    /\ FloatGeq(rooms, minRooms)
    /\ sqm >= minSqm
    /\ price <= maxPrice

(***************************************************************************)
(* The listing store: a Python dict, which keeps insertion order, is a     *)
(* sequence of entries with distinct url fields.                           *)
(***************************************************************************)
Keys(store) == {store[i].url : i \in 1..Len(store)}

Get(store, u) == store[CHOOSE i \in 1..Len(store) : store[i].url = u]

\* store[u] = entry: a new key is appended, a known key keeps its place
Put(store, entry) ==
    IF entry.url \in Keys(store)
    THEN [i \in 1..Len(store) |->
             IF store[i].url = entry.url THEN entry ELSE store[i]]
    ELSE Append(store, entry)

\* the entries of the store that belong to area, and the others
OfArea(store, area) == SelectSeq(store, LAMBDA e : e.area = area)
NotOfArea(store, area) == SelectSeq(store, LAMBDA e : e.area # area)

\* line 171 without its test of found_urls: every listing of the area is stale
IsStaleInArea(e, area_name, found) == e.area = area_name

\* line 171 without its test of the area
IsStaleAnyArea(e, area_name, found) == e.url \notin found

\* the test of line 171: the entry is stale for this crawl
IsStale(e, area_name, found) == e.area = area_name /\ e.url \notin found

\* the loop of lines 170-172 run over the first n keys of the store (all of
\* them when it is not interrupted)
PruneFirst(store, area_name, found, n) ==
    SelectSeq(SubSeq(store, 1, n), LAMBDA e : ~IsStale(e, area_name, found))
        \o SubSeq(store, n + 1, Len(store))

\* lines 170-172 left out: no stored listing is ever deleted
PruneNothing(store, area_name, found) == store

Prune(store, area_name, found) ==
    PruneFirst(store, area_name, found, Len(store))

\* the file listings.json: absent, unreadable as JSON (a partial write), or
\* the dump of a store
MissingFile == [state |-> "missing", content |-> <<>>]
PartialFile == [state |-> "partial", content |-> <<>>]
Dump(store) == [state |-> "json", content |-> store]

\* _load_listings (src/main.py:51-58)
_load_listings(file) == IF file.state = "json" THEN file.content ELSE <<>>

(***************************************************************************)
(* Inputs: configuration, feed content, the file found at startup          *)
(***************************************************************************)
Url(href) == <<BASE_URL, href>>

Hrefs == {"", "/a", "/b"}
Urls == {Url(h) : h \in Hrefs \ {""}}

\* titles: 3 rooms and 75 m2; 1,5 rooms and 75 m2; 3 rooms and 40,5 m2
TitleBig == <<"3", " ", "v", "7", "5">>
TitleFewRooms == <<"1", ",", "5", "v", "7", "5">>
TitleSmall == <<"3", "v", "4", "0", ".", "5">>

\* 9500 and 12000
PriceLow == <<"9", ".", "5", "0", "0">>
PriceHigh == <<"1", "2", " ", "0", "0", "0">>

\* the text of the .css-v49nss element of a detail page (lines 148-149): the
\* page of /a has the element, the page of /b has none
Timestamps(href) == IF href = "/a" THEN {"1d"} ELSE {""}

\* what a results page shows for one card: a listing that passes the filter
\* of Thresholds, one that fails it on each attribute, and a card without href
Shown ==
    { <<TitleBig, PriceLow>>, <<TitleFewRooms, PriceLow>>, <<TitleSmall, PriceLow>>,
      <<TitleBig, PriceHigh>> }

Cards ==
    {[href |-> h, title |-> x[1], price |-> x[2], location |-> "loc"] :
        h \in Hrefs \ {""}, x \in Shown}
        \cup {[href |-> "", title |-> TitleBig, price |-> PriceLow, location |-> "loc"]}

RECURSIVE SeqsUpTo(_, _)
SeqsUpTo(S, n) ==
    IF n = 0 THEN {<<>>}
    ELSE LET shorter == SeqsUpTo(S, n - 1)
         IN  shorter \cup {Append(q, x) : q \in {r \in shorter : Len(r) = n - 1}, x \in S}

PageContents == SeqsUpTo(Cards, MaxCards)

\* MAX_PRICE, MIN_ROOMS and MIN_SQM of the environment (lines 29-31)
Thresholds ==
    { [max_price |-> 10000, min_rooms |-> IntFloat(2), min_sqm |-> 50] }

AreaChoices == {<<>>, <<"X", "Y">>}

\* areas a stored listing may name: the configured ones and one that is not
StoredAreas == {"X", "Y", "Z"}

\* the entry written by lines 151-160
Listing(url, area_name, title_txt, location_txt, price_txt, timestamp_str) ==
    [ url         |-> url,
      area        |-> area_name,
      title       |-> title_txt,
      location    |-> location_txt,
      description |-> title_txt,
      price       |-> price_txt,
      rooms       |-> _parse_rooms(title_txt),
      sqm         |-> _parse_sqm(title_txt),
      timestamp   |-> timestamp_str ]

\* listings in the file at startup
MaxFileListings == 1

\* files left by an earlier run: absent, cut short, or some listings of any area
\* (the cards treat all URLs alike, so the file names one of them first)
FileUrls == <<Url("/a"), Url("/b")>>
FileStores(n) ==
    {q \in SeqsUpTo({Listing(u, a, TitleBig, "loc", PriceLow, "1d") :
                        u \in Urls, a \in StoredAreas}, n) :
        /\ q # <<>>
        /\ \A i \in 1..Len(q) : q[i].url = FileUrls[i]}

InitialFiles ==
    {MissingFile, PartialFile}
        \cup {Dump(q) : q \in FileStores(MaxFileListings)}

\* the notification credentials and the file at startup: with credentials
\* any file, without them (lines 65-67) no file
Startups ==
    {[credentials |-> TRUE, file |-> f] : f \in InitialFiles}
        \cup {[credentials |-> FALSE, file |-> MissingFile]}

(***************************************************************************)
(* State                                                                   *)
(***************************************************************************)
VARIABLES
    areas,          \* self.areas: the configured area names, in dict order
    thresholds,     \* self.max_price, self.min_rooms, self.min_sqm
    credentials,    \* bot_token and chat_id are both set
    listings,       \* self.listings
    driver,         \* self.driver: "open" or "quit"
    disk,           \* the file listings.json
    feed,           \* what the site shows per area and page, when that is fixed
    pc,             \* the position in run()
    exc,            \* the exception travelling through the finally block
    area_idx,       \* run's for loop: index into areas
    page_idx,       \* _scrape_area: page_idx
    cards,          \* _scrape_area: cards
    card_idx,       \* _scrape_area: position in cards
    found_urls,     \* _scrape_area: found_urls (only membership is read)
    \* observations, read by the properties only
    exit,           \* how run() ended: "running", "returned", "raised"
    interrupted,    \* a KeyboardInterrupt has arrived
    quits,          \* calls of driver.quit()
    notified,       \* the listing URLs for which the post of line 71 returned
    renotified,     \* those for which it returned more than once
    cycle,          \* the number of the current cycle
    aborted,        \* the current crawl took the break of line 114
    last,           \* what the last step did
    crawled,        \* per area: the found set of its crawl in this cycle, once completed
    abortedAreas,   \* the areas whose crawl in this cycle was aborted
    loaded,         \* the store as loaded at startup
    restarts,       \* how often the process was killed and started again
    snapshot,       \* what the last completed cycle had saved when it was killed
    text,           \* a text handed to the three parsers
    parsed          \* what they returned for it

vars ==
    <<areas, thresholds, credentials, listings, driver, disk, feed, pc, exc,
      area_idx, page_idx, cards, card_idx, found_urls, exit, interrupted, quits,
      notified, renotified, cycle, aborted, last, crawled, abortedAreas, loaded,
      restarts, snapshot, text, parsed>>

\* what no step of run changes
config == <<areas, thresholds, credentials, loaded, feed, restarts, snapshot, text, parsed>>
crawlVars == <<area_idx, page_idx, cards, card_idx, found_urls>>
cycleObs == <<cycle, crawled, abortedAreas>>

NoStep == "none"
Step(op, url) == op

\* the results pages of the site, per area and page index
Pages == 0..(NUM_PAGES - 1)
EmptyPages == [a \in {"X", "Y"} |-> [p \in Pages |-> <<>>]]

\* the site's content is not fixed: every fetch may show any page content
NoFeed == [fixed |-> FALSE, since |-> 1, pages |-> EmptyPages]

\* the contents of the site with at most n cards over all of its pages
RECURSIVE PagesUpTo(_)
PagesUpTo(n) ==
    IF n = 0 THEN {EmptyPages}
    ELSE LET fewer == PagesUpTo(n - 1)
         IN  fewer \cup
             {[f EXCEPT ![x[1]][x[2]] = Append(@, x[3])] :
                 f \in fewer,
                 x \in {y \in {"X", "Y"} \X Pages \X Cards : TRUE}}

\* the site's content stays as it is for the whole run
Feeds ==
    {[fixed |-> TRUE, since |-> 1, pages |-> f] :
        f \in {g \in PagesUpTo(MaxFeedCards) :
                  \A a \in {"X", "Y"} : \A p \in Pages : Len(g[a][p]) <= MaxCards}}

NoCrawl == [a \in StoredAreas |-> {}]

\* no text is handed to the parsers outside a crawl
NoText == <<>>

\* the characters of the texts that are parsed, and the texts
Alphabet == {"0", "3", "5", "7", "9", " ", ",", ".", "v"}
Texts == SeqsUpTo(Alphabet, MaxTextLen)

\* no text has been parsed
NotParsed == [done |-> FALSE, rooms |-> IntFloat(0), sqm |-> 0, price |-> 0]

\* __init__ (src/main.py:23-38): configuration, the store loaded from the
\* file, the browser started
Startup ==
    /\ areas \in AreaChoices
    /\ thresholds \in Thresholds
    /\ \E s \in Startups :
          /\ credentials = s.credentials
          /\ disk = s.file
    /\ listings = _load_listings(disk)
    /\ loaded = listings
    /\ driver = "open"
    /\ pc = "start"
    /\ exc = "none"
    /\ area_idx = 0
    /\ page_idx = 0
    /\ cards = <<>>
    /\ card_idx = 0
    /\ found_urls = {}
    /\ exit = "running"
    /\ interrupted = FALSE
    /\ quits = 0
    /\ notified = {}
    /\ renotified = {}
    /\ cycle = 0
    /\ aborted = FALSE
    /\ last = NoStep
    /\ crawled = NoCrawl
    /\ abortedAreas = {}
    /\ restarts = 0
    /\ snapshot = <<>>
    /\ parsed = NotParsed

\* the site may show anything at every fetch
Init == Startup /\ feed = NoFeed /\ text = NoText

area_name == areas[area_idx]

(***************************************************************************)
(* run(): entry and the for loop over the areas                            *)
(***************************************************************************)
\* lines 175-181: no area configured returns at once, before the try
RunStart ==
    /\ pc = "start"
    /\ IF areas = <<>>
       THEN /\ pc' = "done"
            /\ exit' = "returned"
            /\ UNCHANGED <<area_idx, cycle>>
       ELSE /\ pc' = "area"
            /\ area_idx' = 1
            /\ cycle' = 1
            /\ exit' = exit
    /\ last' = Step("start", Url(""))
    /\ UNCHANGED <<config, listings, driver, disk, exc, page_idx, cards,
                   card_idx, found_urls, interrupted, quits, notified, renotified, aborted, crawled,
                   abortedAreas>>

\* line 182: the next area, or the save when all areas are done;
\* lines 104-106: the crawl of an area starts with no URL found
NextArea ==
    /\ pc = "area"
    /\ IF area_idx <= Len(areas)
       THEN /\ pc' = "page"
            /\ found_urls' = {}
            /\ page_idx' = 0
            /\ aborted' = FALSE
       ELSE /\ pc' = "save"
            /\ UNCHANGED <<found_urls, page_idx, aborted>>
    /\ last' = Step("area", Url(""))
    /\ UNCHANGED <<config, listings, driver, disk, exc, area_idx, cards,
                   card_idx, exit, interrupted, quits, notified, renotified, cycleObs>>

(***************************************************************************)
(* _scrape_area (src/main.py:104-172)                                      *)
(***************************************************************************)
\* what a fetch of results page p of area a may show
Served(a, p) ==
    IF feed.fixed /\ cycle >= feed.since THEN {feed.pages[a][p]} ELSE PageContents

\* the control after card i of the page cs: the next card, the next page, or
\* the pruning loop after the last page (cards is not read again before
\* line 112 assigns it, and is cleared)
Advance(cs, i) ==
    IF i < Len(cs)
    THEN pc' = "card" /\ cards' = cs /\ card_idx' = i + 1 /\ page_idx' = page_idx
    ELSE IF page_idx + 1 < NUM_PAGES
         THEN pc' = "page" /\ cards' = <<>> /\ card_idx' = 0 /\ page_idx' = page_idx + 1
         ELSE pc' = "prune" /\ cards' = <<>> /\ card_idx' = 0 /\ page_idx' = page_idx

\* _scrape_area is left: its locals are gone
LeaveCrawl ==
    /\ page_idx' = 0
    /\ cards' = <<>>
    /\ card_idx' = 0
    /\ found_urls' = {}

\* an exception leaves the loop of run, and _scrape_area if it is inside:
\* the locals are gone, and so is what was observed of the cycle
LeaveLoop ==
    /\ LeaveCrawl
    /\ area_idx' = 0
    /\ aborted' = FALSE
    /\ crawled' = NoCrawl
    /\ abortedAreas' = {}
    /\ cycle' = cycle

\* line 113 without its test of page_idx: every empty page breaks out of the
\* page loop
ScrapeResultsBreakOnEmpty ==
    /\ pc = "page"
    /\ \E content \in Served(area_name, page_idx) :
          /\ IF content = <<>>
             THEN /\ pc' = "prune"
                  /\ aborted' = (page_idx = 0)
                  /\ UNCHANGED <<cards, card_idx, page_idx>>
             ELSE /\ Advance(content, 0)
                  /\ aborted' = aborted
          /\ last' = Step("page", Url(""))
    /\ UNCHANGED <<config, listings, driver, disk, exc, area_idx, found_urls, exit,
                   interrupted, quits, notified, renotified, cycleObs>>

\* lines 107-114: a results page is fetched; an empty page 0 breaks out of
\* the page loop
ScrapeResults ==
    /\ pc = "page"
    /\ \E content \in Served(area_name, page_idx) :
          /\ IF page_idx = 0 /\ content = <<>>
             THEN /\ pc' = "prune"
                  /\ aborted' = TRUE
                  /\ UNCHANGED <<cards, card_idx, page_idx>>
             ELSE /\ Advance(content, 0)
                  /\ aborted' = aborted
          /\ last' = Step("page", Url(""))
    /\ UNCHANGED <<config, listings, driver, disk, exc, area_idx, found_urls, exit,
                   interrupted, quits, notified, renotified, cycleObs>>

\* line 76 raises for a results page: the error leaves _scrape_area and the
\* loop of run, into the finally block
ScrapeResultsFails ==
    /\ pc = "page"
    /\ LeaveLoop
    /\ exc' = "error"
    /\ pc' = "quit"
    /\ last' = Step("page-error", Url(""))
    /\ UNCHANGED <<config, listings, driver, disk, exit, interrupted, quits, notified, renotified>>

card == cards[card_idx]
apt_url == Url(card.href)

\* lines 137-143 for a card
Admitted(c) ==
    _meets_criteria(_parse_rooms(c.title), _parse_sqm(c.title), _parse_price(c.price),
                    thresholds.min_rooms, thresholds.min_sqm, thresholds.max_price)

\* line 125 without lines 125-126: every card is taken for a new listing
KnownNever(store, u) == FALSE

\* line 125 looking only at the listings of the area that is crawled
KnownInArea(store, u) == u \in Keys(OfArea(store, area_name))

\* line 125
Known(store, u) == u \in Keys(store)

\* lines 125-143: the card is a listing to fetch, store and notify
IsNew(store, c) == c.href # "" /\ ~Known(store, Url(c.href)) /\ Admitted(c)

\* the entry of lines 151-160 for the current card
NewListing(timestamp_str) ==
    Listing(apt_url, area_name, card.title, card.location, card.price, timestamp_str)

\* lines 119-121: a card without href is passed over
CardNoHref ==
    /\ pc = "card"
    /\ card.href = ""
    /\ Advance(cards, card_idx)
    /\ last' = Step("nohref", apt_url)
    /\ UNCHANGED <<config, listings, driver, disk, exc, area_idx, found_urls, exit,
                   interrupted, quits, notified, renotified, aborted, cycleObs>>

\* lines 123-126: the URL counts as found; a listing in the store is passed over
CardKnown ==
    /\ pc = "card"
    /\ card.href # ""
    /\ Known(listings, apt_url)
    /\ found_urls' = found_urls \cup {apt_url}
    /\ Advance(cards, card_idx)
    /\ last' = Step("known", apt_url)
    /\ UNCHANGED <<config, listings, driver, disk, exc, area_idx, exit, interrupted,
                   quits, notified, renotified, aborted, cycleObs>>

\* lines 128-145: a new listing that fails the filter is passed over
CardRejected ==
    /\ pc = "card"
    /\ card.href # ""
    /\ ~Known(listings, apt_url)
    /\ ~Admitted(card)
    /\ found_urls' = found_urls \cup {apt_url}
    /\ Advance(cards, card_idx)
    /\ last' = Step("rejected", apt_url)
    /\ UNCHANGED <<config, listings, driver, disk, exc, area_idx, exit, interrupted,
                   quits, notified, renotified, aborted, cycleObs>>

\* line 147 raises for the detail page of a new admitted listing
CardDetailFails ==
    /\ pc = "card"
    /\ IsNew(listings, card)
    /\ LeaveLoop
    /\ exc' = "error"
    /\ pc' = "quit"
    /\ last' = Step("detail-error", apt_url)
    /\ UNCHANGED <<config, listings, driver, disk, exit, interrupted, quits, notified, renotified>>

\* _send_telegram_notification (src/main.py:64-73) when it returns: "skipped"
\* without credentials (lines 65-67); else the post has returned, with status
\* 200 ("ok") or another status ("refused", line 73)
SendOutcomes == IF credentials THEN {"ok", "refused"} ELSE {"skipped"}

\* lines 147-167: the detail page is fetched, the listing is stored and its
\* notification is sent
CardInsert ==
    /\ pc = "card"
    /\ IsNew(listings, card)
    /\ found_urls' = found_urls \cup {apt_url}
    /\ \E timestamp_str \in Timestamps(card.href) :
          listings' = Put(listings, NewListing(timestamp_str))
    /\ \E outcome \in SendOutcomes :
          /\ notified' = IF outcome = "skipped" THEN notified
                         ELSE notified \cup {apt_url}
          /\ renotified' = IF outcome # "skipped" /\ apt_url \in notified
                           THEN renotified \cup {apt_url}
                           ELSE renotified
          /\ last' = Step(outcome, apt_url)
    /\ Advance(cards, card_idx)
    /\ UNCHANGED <<config, driver, disk, exc, area_idx, exit, interrupted, quits,
                   aborted, cycleObs>>

\* lines 147-160, and the post of line 71 raises: the listing is stored, and
\* the error leaves _scrape_area and the loop of run
CardInsertPostFails ==
    /\ pc = "card"
    /\ IsNew(listings, card)
    /\ credentials
    /\ \E timestamp_str \in Timestamps(card.href) :
          listings' = Put(listings, NewListing(timestamp_str))
    /\ LeaveLoop
    /\ exc' = "error"
    /\ pc' = "quit"
    /\ last' = Step("post-error", apt_url)
    /\ UNCHANGED <<config, driver, disk, exit, interrupted, quits, notified, renotified>>

\* lines 169-172 sparing a listing that the crawl of another area has found
\* in this cycle
PruneStaleUnlessFoundElsewhere ==
    /\ pc = "prune"
    /\ listings' = SelectSeq(listings, LAMBDA e :
                       \/ ~IsStale(e, area_name, found_urls)
                       \/ \E a \in DOMAIN crawled : e.url \in crawled[a])
    /\ area_idx' = area_idx + 1
    /\ pc' = "area"
    /\ crawled' = [crawled EXCEPT ![area_name] = found_urls]
    /\ abortedAreas' = IF aborted THEN abortedAreas \cup {area_name} ELSE abortedAreas
    /\ aborted' = FALSE
    /\ LeaveCrawl
    /\ last' = Step("prune", Url(""))
    /\ UNCHANGED <<config, driver, disk, exc, exit, interrupted, quits, notified, renotified, cycle>>

\* lines 169-172 run only after a crawl that was not aborted at page 0
PruneStaleUnlessAborted ==
    /\ pc = "prune"
    /\ listings' = IF aborted THEN listings ELSE Prune(listings, area_name, found_urls)
    /\ area_idx' = area_idx + 1
    /\ pc' = "area"
    /\ crawled' = [crawled EXCEPT ![area_name] = found_urls]
    /\ abortedAreas' = IF aborted THEN abortedAreas \cup {area_name} ELSE abortedAreas
    /\ aborted' = FALSE
    /\ LeaveCrawl
    /\ last' = Step("prune", Url(""))
    /\ UNCHANGED <<config, driver, disk, exc, exit, interrupted, quits, notified, renotified, cycle>>

\* lines 169-172: the stale listings of this area are deleted, and
\* _scrape_area returns
PruneStale ==
    /\ pc = "prune"
    /\ listings' = Prune(listings, area_name, found_urls)
    /\ area_idx' = area_idx + 1
    /\ pc' = "area"
    /\ crawled' = [crawled EXCEPT ![area_name] = found_urls]
    /\ abortedAreas' = IF aborted THEN abortedAreas \cup {area_name} ELSE abortedAreas
    /\ aborted' = FALSE
    /\ LeaveCrawl
    /\ last' = Step("prune", Url(""))
    /\ UNCHANGED <<config, driver, disk, exc, exit, interrupted, quits, notified, renotified, cycle>>

(***************************************************************************)
(* run(): the save of a cycle, the sleep, and the exit                     *)
(***************************************************************************)
\* _save_listings (src/main.py:60-62): the file is rewritten with the store
_save_listings(store) == Dump(store)

\* a save that raises: open() fails and the file stays, or the write fails
\* after open() has truncated the file
FailedSaves(file) == {file, PartialFile}

\* line 186
SaveCycle ==
    /\ pc = "save"
    /\ disk' = _save_listings(listings)
    /\ pc' = "sleep"
    /\ last' = Step("save", Url(""))
    /\ UNCHANGED <<config, listings, driver, exc, crawlVars, exit, interrupted, quits,
                   notified, renotified, aborted, cycleObs>>

\* line 186 raises: the error leaves the loop, into the finally block
SaveCycleFails ==
    /\ pc = "save"
    /\ disk' \in FailedSaves(disk)
    /\ exc' = "error"
    /\ pc' = "quit"
    /\ LeaveLoop
    /\ last' = Step("save-error", Url(""))
    /\ UNCHANGED <<config, listings, driver, exit, interrupted, quits, notified, renotified>>

\* lines 187-188 and back to line 181: the next cycle
Sleeps ==
    /\ pc = "sleep"
    /\ pc' = "area"
    /\ area_idx' = 1
    /\ cycle' = cycle + 1
    /\ crawled' = NoCrawl
    /\ abortedAreas' = {}
    /\ last' = Step("sleep", Url(""))
    /\ UNCHANGED <<config, listings, driver, disk, exc, page_idx, cards, card_idx,
                   found_urls, exit, interrupted, quits, notified, renotified, aborted>>

Sleep == cycle < MaxCycles /\ Sleeps

\* the sleep after the last of these cycles, in a run that is followed for
\* one cycle more
SleepLonger == cycle = MaxCycles /\ Sleeps

\* the positions inside the try block of lines 180-188
InLoop == {"area", "page", "card", "prune", "save", "sleep"}

\* lines 190-191: a KeyboardInterrupt raised between two steps of the loop is
\* caught, and the finally block follows
Interrupt ==
    /\ pc \in InLoop
    /\ LeaveLoop
    /\ interrupted' = TRUE
    /\ pc' = "quit"
    /\ last' = Step("interrupt", Url(""))
    /\ UNCHANGED <<config, listings, driver, disk, exc, exit, quits, notified, renotified>>

\* a KeyboardInterrupt raised after line 160 and before the post of line 71
\* has returned: the listing is stored
InterruptInsert ==
    /\ pc = "card"
    /\ IsNew(listings, card)
    /\ \E timestamp_str \in Timestamps(card.href) :
          listings' = Put(listings, NewListing(timestamp_str))
    /\ LeaveLoop
    /\ interrupted' = TRUE
    /\ pc' = "quit"
    /\ last' = Step("interrupt-insert", apt_url)
    /\ UNCHANGED <<config, driver, disk, exc, exit, quits, notified, renotified>>

\* a KeyboardInterrupt raised inside the loop of lines 170-172, after n keys
InterruptPrune ==
    /\ pc = "prune"
    /\ \E n \in 0..Len(listings) :
          listings' = PruneFirst(listings, area_name, found_urls, n)
    /\ LeaveLoop
    /\ interrupted' = TRUE
    /\ pc' = "quit"
    /\ last' = Step("interrupt-prune", Url(""))
    /\ UNCHANGED <<config, driver, disk, exc, exit, quits, notified, renotified>>

\* a KeyboardInterrupt raised inside line 62, after open() has truncated the
\* file
InterruptSave ==
    /\ pc = "save"
    /\ disk' = PartialFile
    /\ interrupted' = TRUE
    /\ pc' = "quit"
    /\ LeaveLoop
    /\ last' = Step("interrupt-save", Url(""))
    /\ UNCHANGED <<config, listings, driver, exc, exit, quits, notified, renotified>>

\* line 193
QuitDriver ==
    /\ pc = "quit"
    /\ driver' = "quit"
    /\ quits' = quits + 1
    /\ pc' = "finalsave"
    /\ last' = Step("quit", Url(""))
    /\ UNCHANGED <<config, listings, disk, exc, crawlVars, exit, interrupted, notified, renotified,
                   aborted, cycleObs>>

\* line 194 left out: run ends without the save of the finally block
SaveFinalSkipped ==
    /\ pc = "finalsave"
    /\ pc' = "done"
    /\ exit' = IF exc = "error" THEN "raised" ELSE "returned"
    /\ last' = Step("final-save", Url(""))
    /\ UNCHANGED <<config, listings, driver, disk, exc, crawlVars, interrupted, quits,
                   notified, renotified, aborted, cycleObs>>

\* line 194, and the end of run: it returns after a caught interrupt and
\* raises again the error that brought it into the finally block
SaveFinal ==
    /\ pc = "finalsave"
    /\ disk' = _save_listings(listings)
    /\ pc' = "done"
    /\ exit' = IF exc = "error" THEN "raised" ELSE "returned"
    /\ last' = Step("final-save", Url(""))
    /\ UNCHANGED <<config, listings, driver, exc, crawlVars, interrupted, quits,
                   notified, renotified, aborted, cycleObs>>

\* line 194 raises
SaveFinalFails ==
    /\ pc = "finalsave"
    /\ disk' \in FailedSaves(disk)
    /\ exc' = "error"
    /\ pc' = "done"
    /\ exit' = "raised"
    /\ last' = Step("final-save-error", Url(""))
    /\ UNCHANGED <<config, listings, driver, crawlVars, interrupted, quits, notified, renotified,
                   aborted, cycleObs>>

Next ==
    \/ RunStart
    \/ NextArea
    \/ ScrapeResults
    \/ ScrapeResultsFails
    \/ CardNoHref
    \/ CardKnown
    \/ CardRejected
    \/ CardDetailFails
    \/ CardInsert
    \/ CardInsertPostFails
    \/ PruneStale
    \/ SaveCycle
    \/ SaveCycleFails
    \/ Sleep
    \/ Interrupt
    \/ InterruptInsert
    \/ InterruptPrune
    \/ InterruptSave
    \/ QuitDriver
    \/ SaveFinal
    \/ SaveFinalFails

Spec == Init /\ [][Next]_vars

\* the site shows the same content for the whole run
InitFeed == Startup /\ feed \in Feeds /\ text = NoText
SpecFeed == InitFeed /\ [][Next]_vars

(***************************************************************************)
(* The process is killed and started again                                 *)
(***************************************************************************)
\* the process is killed inside the loop of run, so that the finally block
\* does not run, and is started again: __init__ (src/main.py:23-38) loads the
\* store from the file. A kill during the save of line 186 may leave the
\* file as open("w") and a part of the dump left it.
CrashRestart ==
    /\ restarts < MaxRestarts
    /\ pc \in InLoop
    /\ restarts' = restarts + 1
    /\ snapshot' = IF cycle >= 2 \/ pc = "sleep" THEN disk.content ELSE <<>>
    /\ disk' \in IF pc = "save" THEN {disk, PartialFile} ELSE {disk}
    /\ listings' = _load_listings(disk')
    /\ loaded' = listings'
    /\ driver' = "open"
    /\ pc' = "start"
    /\ LeaveCrawl
    /\ area_idx' = 0
    /\ aborted' = FALSE
    /\ crawled' = NoCrawl
    /\ abortedAreas' = {}
    /\ cycle' = 0
    /\ last' = Step("restart", Url(""))
    /\ UNCHANGED <<areas, thresholds, credentials, feed, text, parsed, exc, exit,
                   interrupted, quits, notified, renotified>>

NextCrash == Next \/ CrashRestart

\* the site shows the same content before and after the kill
SpecCrash == InitFeed /\ [][NextCrash]_vars

(***************************************************************************)
(* A run followed for one cycle more                                       *)
(***************************************************************************)
\* the site's content stays as it is from the second cycle on, with cards
\* on the first page of each area only
LaterFeeds ==
    {[fixed |-> TRUE, since |-> 2, pages |-> f.pages] :
        f \in {g \in Feeds :
                  \A a \in DOMAIN g.pages : \A p \in Pages \ {0} : g.pages[a][p] = <<>>}}

\* a run with two areas, credentials and no file
InitLonger ==
    /\ Startup
    /\ feed \in LaterFeeds
    /\ text = NoText
    /\ areas = <<"X", "Y">>
    /\ credentials
    /\ disk = MissingFile

NextLonger == Next \/ SleepLonger

SpecLonger == InitLonger /\ [][NextLonger]_vars

(***************************************************************************)
(* The parsers on their own                                                *)
(***************************************************************************)
\* lines 137-139: the three parsers are applied to a text
Parse ==
    /\ ~parsed.done
    /\ parsed' = [done |-> TRUE, rooms |-> _parse_rooms(text), sqm |-> _parse_sqm(text),
                  price |-> _parse_price(text)]
    /\ UNCHANGED <<areas, thresholds, credentials, listings, driver, disk, feed, pc, exc,
                   crawlVars, exit, interrupted, quits, notified, renotified, cycle,
                   aborted, last, crawled, abortedAreas, loaded, restarts, snapshot, text>>

\* a scraper with no area and no file, and any text
InitParse ==
    /\ Startup
    /\ feed = NoFeed
    /\ areas = <<>>
    /\ credentials
    /\ disk = MissingFile
    /\ text \in Texts

NextParse == Parse

SpecParse == InitParse /\ [][NextParse]_vars

\* run() goes on once it is in its finally block: driver.quit() returns and
\* the save returns or raises
SpecLive ==
    /\ Init
    /\ [][Next]_vars
    /\ WF_vars(QuitDriver)
    /\ WF_vars(SaveFinal \/ SaveFinalFails)

TypeOK ==
    /\ pc \in {"start", "done", "quit", "finalsave"} \cup InLoop
    /\ driver \in {"open", "quit"}
    /\ Cardinality(Keys(listings)) = Len(listings)

(***************************************************************************)
(* Properties                                                              *)
(***************************************************************************)
Range(q) == {q[i] : i \in 1..Len(q)}
Entries(store) == Range(store)

\* the positions inside _scrape_area
InCrawl == pc \in {"page", "card", "prune"}

\* the steps that fetch a detail page (line 147), and those in which the
\* post of line 71 returns
DetailSteps == {"ok", "refused", "skipped", "post-error", "detail-error", "interrupt-insert"}
PostSteps == {"ok", "refused"}

\* C1: no step of the crawl of an area, whether the crawl completes, is
\* aborted at page 0, raises or is interrupted, deletes, changes, adds or
\* reorders a listing whose area field differs from the crawled area: the
\* listings of every other area, configured or not, stay as they are.
C1_PruningScope ==
    [][InCrawl => NotOfArea(listings', area_name) = NotOfArea(listings, area_name)]_vars

\* C1 witness: the crawl of an area has just deleted the listing loaded from
\* the file while a listing of another area is in the store.
C1_Witness ==
    /\ last = "prune"
    /\ cycle = 1
    /\ \E e \in Entries(loaded) :
          /\ e.area = areas[area_idx - 1]
          /\ e.url \notin Keys(listings)
    /\ \E e \in Entries(listings) : e.area # areas[area_idx - 1]

\* C2 (as claimed): a stored listing is removed only by the pruning of a
\* crawl of its area that was not aborted at page 0 and whose found set lacks
\* its URL, and the pruning that ends such a crawl removes every such listing.
C2_RemovedOnlyByFullCrawl ==
    [][\A e \in Entries(listings) :
          LET absentFromFullCrawl ==
                  /\ pc = "prune"
                  /\ ~aborted
                  /\ e.area = area_name
                  /\ e.url \notin found_urls
          IN  /\ e.url \notin Keys(listings') => absentFromFullCrawl
              /\ absentFromFullCrawl /\ pc' = "area" => e.url \notin Keys(listings')]_vars

\* C3: a crawl that was aborted at page 0 reaches the pruning with an empty
\* found set, and its pruning leaves exactly the listings of the other areas:
\* no listing of the crawled area is left, every other listing is kept.
C3_EarlyAbortPrunes ==
    /\ [](pc = "prune" /\ aborted => found_urls = {} /\ page_idx = 0)
    /\ [][pc = "prune" /\ aborted /\ pc' = "area"
             => listings' = NotOfArea(listings, area_name)]_vars

\* C3 witness: the store held two listings of area X at the end of cycle 1
\* (as saved), page 0 of X was empty in cycle 2 and the store is empty after
\* the crawl of X.
C3_Witness ==
    /\ last = "prune"
    /\ cycle = 2
    /\ area_idx = 2
    /\ "X" \in abortedAreas
    /\ disk.state = "json"
    /\ Len(disk.content) = 2
    /\ \A e \in Entries(disk.content) : e.area = "X"
    /\ listings = <<>>

\* C4: a step that observes a card whose URL is in the store fetches no
\* detail page, leaves the store as it is and sends no notification; and a
\* step in which a notification is sent inserts the URL of the card, which
\* was not in the store before the step.
C4_NoRenotification ==
    /\ [][pc = "card" /\ card.href # "" /\ apt_url \in Keys(listings)
             => /\ listings' = listings
                /\ notified' = notified
                /\ last' \notin DetailSteps]_vars
    /\ [][last' \in PostSteps
             => /\ pc = "card"
                /\ apt_url \notin Keys(listings)
                /\ apt_url \in Keys(listings')
                /\ Len(listings') = Len(listings) + 1]_vars

\* C4 witness: in the second cycle a card of a listing stored and notified
\* in the first cycle has just been passed over.
C4_Witness ==
    /\ last = "known"
    /\ cycle = 2
    /\ loaded = <<>>
    /\ notified # {}

\* the filter of lines 98-102 on the stored attributes of an entry
PassesFilter(e) ==
    /\ FloatGeq(e.rooms, thresholds.min_rooms)
    /\ e.sqm >= thresholds.min_sqm
    /\ _parse_price(e.price) <= thresholds.max_price

\* C6: when the store starts empty, every stored listing names a configured
\* area and has rooms >= minRooms, sqm >= minSqm and price <= maxPrice; a step
\* that adds an entry to the store processes a card found in the crawl of the
\* entry's area, and the card passes the filter and carries the entry's URL
\* and attributes; a step on a card that fails the filter changes neither the
\* store nor the notifications.
C6_Admission ==
    /\ [](loaded = <<>> =>
             \A e \in Entries(listings) : PassesFilter(e) /\ e.area \in Range(areas))
    /\ [][\A e \in Entries(listings') \ Entries(listings) :
             /\ pc = "card"
             /\ e.url = apt_url
             /\ e.area = area_name
             /\ e.title = card.title /\ e.price = card.price
             /\ e.rooms = _parse_rooms(card.title) /\ e.sqm = _parse_sqm(card.title)
             /\ PassesFilter(e)]_vars
    /\ [][pc = "card" /\ card.href # "" /\ ~PassesFilter(Listing(apt_url, area_name,
                                    card.title, card.location, card.price, ""))
             => /\ listings' = listings
                /\ notified' = notified
                /\ last' \notin DetailSteps]_vars

\* C6 witness: from an empty store, a card that fails the filter has just been
\* passed over in the second cycle, its URL is not stored, and a listing
\* admitted earlier is stored.
C6_Witness ==
    /\ loaded = <<>>
    /\ last = "rejected"
    /\ cycle = 2
    /\ Len(listings) = 1
    /\ found_urls \ Keys(listings) # {}

\* the areas whose crawl has completed in this cycle
Crawled == {areas[i] : i \in 1..(area_idx - 1)}

\* C7: when all areas of a cycle are crawled, every stored listing of a
\* configured area has its URL in the found set of that area's crawl of this
\* cycle, and that crawl was not aborted at page 0; the other stored listings
\* name an area that is not configured.
C7_PostCycleStore ==
    pc \in {"save", "sleep"} =>
        /\ Crawled = Range(areas)
        /\ \A e \in Entries(listings) :
              e.area \in Range(areas) =>
                  /\ e.area \notin abortedAreas
                  /\ e.url \in crawled[e.area]

\* C7 witness: a cycle has ended with a listing of a crawled area and a
\* listing of an area that is not configured in the store, and with another
\* area aborted.
C7_Witness ==
    /\ pc = "save"
    /\ abortedAreas # {}
    /\ \E e \in Entries(listings) : e.area \in Range(areas)
    /\ \E e \in Entries(listings) : e.area \notin Range(areas)

UniqueKeys(store) == Cardinality(Keys(store)) = Len(store)

C10_ReleasedExactlyOnce ==
    /\ quits <= 1
    /\ pc = "done" => quits = 1 /\ driver = "quit"

\* C5 (as claimed): with the content of the site fixed, a cycle after the
\* first sends no notification and changes no stored listing, and at its end
\* the store equals the store at the end of the cycle before (which is what
\* the save of that cycle wrote to the file).
C5_Idempotent ==
    /\ [](pc = "save" /\ cycle >= 2 => disk = Dump(listings))
    /\ [][cycle >= 2 /\ cycle' = cycle /\ pc \in InLoop /\ pc' \in InLoop
             => last' \notin PostSteps]_vars

OnFeed(a, u) ==
    /\ a \in DOMAIN feed.pages
    /\ \E p \in Pages : \E c \in Range(feed.pages[a][p]) : c.href # "" /\ Url(c.href) = u

\* C11 (as claimed): after the process was killed and started again, no
\* notification is sent for a listing that the last completed cycle before
\* the kill had saved and that its area still shows: a listing notified
\* again after the restart was discovered after that save, in the cycle that
\* the kill interrupted.
C11_BoundedLoss ==
    [][restarts >= 1 /\ pc = "card" /\ last' \in PostSteps
          => \A e \in Entries(snapshot) : e.url = apt_url => ~OnFeed(e.area, e.url)]_vars

\* C12 (as claimed): every step leaves the file as it was or leaves it
\* holding the complete dump of the store, also a step in which the save
\* raises or is interrupted; the file never becomes a partial dump.
C12_AtomicSave ==
    [][disk' = disk \/ disk' = Dump(listings)]_vars

\* the positions inside _scrape_area
Crawling == {"card", "page", "prune"}

\* C13 (as claimed): a step in which the notification of a new listing is
\* not delivered, because the post returns another status than 200 or
\* because it raises, leaves the listing in the store and the crawl going
\* on with no error raised.
C13_NotificationNeverFatal ==
    [][pc = "card" /\ last' \in {"refused", "post-error"}
          => /\ apt_url \in Keys(listings')
             /\ pc' \in Crawling
             /\ exc' = "none"]_vars

\* C14 (as claimed): a step in which the fetch of the detail page of a new
\* admitted card raises stores the listing with an empty timestamp and
\* leaves the crawl going on with no error raised.
C14_DetailFailureTolerated ==
    [][pc = "card" /\ last' = "detail-error"
          => /\ apt_url \in Keys(listings')
             /\ Get(listings', apt_url).timestamp = ""
             /\ pc' \in Crawling
             /\ exc' = "none"]_vars

\* C15 (as claimed): a step in which the save of a cycle raises leaves the
\* store as it is and goes on to the sleep, with no error raised.
C15_SaveFailureTolerated ==
    [][pc = "save" /\ last' = "save-error"
          => /\ listings' = listings
             /\ pc' = "sleep"
             /\ exc' = "none"]_vars

\* the numeric tokens of a text as it stands: the maximal digit runs, each
\* together with a comma and the digits after it when they follow
TokensOf(t) == FindAll(t, 1, {","})

\* C16 (as claimed): _parse_rooms returns the value of the first token of
\* the text as it stands, and _parse_sqm the rounded value of its last
\* token; both return 0 for a text without a token.
C16_ParseRules ==
    parsed.done =>
        LET tokens == TokensOf(text)
        IN  IF tokens = <<>>
            THEN parsed.rooms = IntFloat(0) /\ parsed.sqm = 0
            ELSE /\ parsed.rooms = ToFloat(tokens[1])
                 /\ parsed.sqm = Round(ToFloat(tokens[Len(tokens)]))

\* the integer written by the digits of the first i characters of t, read
\* from left to right
RECURSIVE DigitsInOrder(_, _)
DigitsInOrder(t, i) ==
    IF i = 0 THEN 0
    ELSE IF IsDigit(t[i]) THEN 10 * DigitsInOrder(t, i - 1) + DigitValue(t[i])
         ELSE DigitsInOrder(t, i - 1)

\* C17: for every text the three parsers return a value; for a text
\* without a digit, the empty text included, each of them returns 0; and
\* _parse_price returns the integer that the digits of the text write in
\* their order, whatever stands between them.
C17_ParseDegradation ==
    parsed.done =>
        /\ parsed.price = DigitsInOrder(text, Len(text))
        /\ parsed.price \in Nat /\ parsed.sqm \in Nat /\ parsed.rooms.n \in Nat
        /\ (\A i \in 1..Len(text) : ~IsDigit(text[i])) =>
               /\ parsed.rooms = IntFloat(0)
               /\ parsed.sqm = 0
               /\ parsed.price = 0

\* C17 witness: the price text 9.500 has been parsed to 9500.
C17_Witness ==
    /\ parsed.done
    /\ text = <<"9", ".", "5", "0", "0">>
    /\ parsed.price = 9500

\* C18: during the crawl of an area the URL of every card with a link
\* enters the found set and stays in it, no step before the pruning removes
\* or changes a stored listing, and the pruning of a crawl that was not
\* aborted keeps, unchanged, every listing of the area whose URL is in the
\* found set, whatever the cards showed for it.
C18_PresenceKept ==
    /\ [][pc = "card" /\ card.href # "" /\ pc' \in Crawling => apt_url \in found_urls']_vars
    /\ [][pc' \in Crawling /\ pc \in {"page", "card"}
             => /\ found_urls \subseteq found_urls'
                /\ \A e \in Entries(listings) : e \in Entries(listings')]_vars
    /\ [][pc = "prune" /\ ~aborted /\ pc' = "area"
             => \A e \in Entries(listings) :
                   e.area = area_name /\ e.url \in found_urls => e \in Entries(listings')]_vars

\* C18 witness: the crawl of an area, not aborted, has just ended; a listing
\* of the area loaded from the file is in the store as loaded, and the site
\* shows it with a title or price that fails the filter.
C18_Witness ==
    /\ last = "prune"
    /\ cycle = 1
    /\ areas[area_idx - 1] \notin abortedAreas
    /\ \E e \in Entries(listings) \cap Entries(loaded) :
          /\ e.area = areas[area_idx - 1]
          /\ PassesFilter(e)
          /\ \E p \in Pages : \E c \in Range(feed.pages[e.area][p]) :
                /\ c.href # "" /\ Url(c.href) = e.url
                /\ ~Admitted(c)

\* C19: a crawl fetches page 0 first and after page p, if it fetches again,
\* page p + 1; the fetch of an empty page 0 goes straight to the pruning, as
\* an aborted crawl; the fetch of an empty page p >= 1 goes on to page p + 1,
\* or to the pruning after the last page, and aborts nothing; a crawl that
\* reaches the pruning has fetched page 0 only when it was aborted and all
\* of the pages 0..NUM_PAGES-1 otherwise; and no URL leaves the found set
\* before the pruning.
C19_PageLoop ==
    /\ [][pc = "area" /\ pc' = "page" => page_idx' = 0]_vars
    /\ [][pc' = "page" /\ pc \in {"page", "card"} => page_idx' = page_idx + 1]_vars
    /\ [][pc' = "card" /\ pc \in {"page", "card"} => page_idx' = page_idx]_vars
    /\ [][pc = "page" /\ last' = "page" /\ page_idx = 0
             => \/ pc' = "card" /\ ~aborted'
                \/ pc' = "prune" /\ aborted' /\ page_idx' = 0]_vars
    /\ [][pc = "page" /\ last' = "page" /\ page_idx >= 1 /\ pc' # "card"
             => /\ ~aborted'
                /\ IF page_idx + 1 < NUM_PAGES
                   THEN pc' = "page" /\ page_idx' = page_idx + 1
                   ELSE pc' = "prune"]_vars
    /\ [](pc = "prune" => page_idx = IF aborted THEN 0 ELSE NUM_PAGES - 1)
    /\ [](pc \in {"page", "card"} => ~aborted /\ page_idx \in 0..(NUM_PAGES - 1))
    /\ [][pc' \in Crawling /\ pc \in Crawling => found_urls \subseteq found_urls']_vars

\* C19 witness: a crawl has reached the pruning without abort; the site
\* shows a card on page 0, nothing on page 1 and a linked card on page 2,
\* whose URL is in the found set.
C19_Witness ==
    /\ pc = "prune"
    /\ ~aborted
    /\ feed.fixed
    /\ feed.pages[area_name][0] # <<>>
    /\ feed.pages[area_name][1] = <<>>
    /\ \E c \in Range(feed.pages[area_name][2]) :
          c.href # "" /\ Url(c.href) \in found_urls

\* C20: the pruning that ends the crawl of an area deletes every listing of
\* that area whose URL is not in its found set, also one whose URL is in the
\* found set of another area's crawl of the same cycle; a card whose URL is
\* stored, under whatever area, leaves the store as it is; and a step that
\* handles a new admitted card without an error or interrupt stores the
\* listing under the area that is crawled and, the credentials being set,
\* posts its notification, which is a repeated one when the URL was notified
\* before.
C20_Migration ==
    /\ [][pc = "prune" /\ pc' = "area"
             => \A e \in Entries(listings) :
                   e.area = area_name /\ e.url \notin found_urls
                       => e.url \notin Keys(listings')]_vars
    /\ [][pc = "card" /\ card.href # "" /\ apt_url \in Keys(listings) /\ pc' \in Crawling
             => listings' = listings /\ apt_url \in found_urls']_vars
    /\ [][pc = "card" /\ IsNew(listings, card) /\ pc' \in Crawling
             => /\ apt_url \in Keys(listings')
                /\ Get(listings', apt_url).area = area_name
                /\ credentials => /\ last' \in PostSteps
                                  /\ apt_url \in notified'
                                  /\ apt_url \in notified => apt_url \in renotified']_vars

\* C20 witness: in the third cycle the crawl of X has just stored a listing
\* and posted its notification for the second time in this run; the site,
\* unchanged since the second cycle, shows the listing under X and not under
\* Y, where it shows another card.
C20_Witness ==
    /\ cycle = 3
    /\ last \in PostSteps
    /\ area_idx = 1
    /\ feed.pages["Y"][0] # <<>>
    /\ \E e \in Entries(listings) :
          /\ e.area = "X"
          /\ e.url \in renotified
          /\ OnFeed("X", e.url)
          /\ ~OnFeed("Y", e.url)

====
